---- MODULE Spec2Model ----
(***************************************************************************)
(* Model of pysparky/utils.py: create_map_from_dict,                       *)
(* join_dataframes_on_column and union_dataframes.                         *)
(*                                                                         *)
(* The three functions are pure.  Each is an operator computed the way     *)
(* the Python computes it; the specification draws a call's arguments      *)
(* from bounded sets and applies the function.  A DataFrame is the         *)
(* engine's lazy plan together with its schema and its rows; the engine's  *)
(* join and union are modelled by what PySpark's DataFrame.join and        *)
(* DataFrame.union do.  Every outcome carries the log of the pairwise      *)
(* engine operations the call performed.                                   *)
(***************************************************************************)
EXTENDS Integers, Sequences, FiniteSets, TLC

VARIABLES pc, fn, column_name, args, dict_, outcome

vars == <<pc, fn, column_name, args, dict_, outcome>>

----------------------------------------------------------------------------
(* Bounds *)

\* Total size of a call's positional arguments: a DataFrame counts 1, a list
\* counts 1 plus its length.
MaxSize == 4

\* Dictionary values range over 0..MaxVal.
MaxVal == 1

----------------------------------------------------------------------------
(* Values *)

NULL == "NULL"

\* The DataFrames calls are made with.  T1 holds a duplicated row, T2 shares
\* a row with T1, T3 lacks column "k" and has another width.
T1 == [plan |-> <<"T1">>, columns |-> <<"k", "a">>,
       rows |-> << <<"x", "y">>, <<"x", "y">> >>]
T2 == [plan |-> <<"T2">>, columns |-> <<"k", "b">>,
       rows |-> << <<"x", "y">>, <<"z", "y">> >>]
T3 == [plan |-> <<"T3">>, columns |-> <<"a">>,
       rows |-> << <<"x">> >>]

Tables == {T1, T2, T3}

TableNames == {"T1", "T2", "T3"}

ColumnNames == {"k", "a"}

DictKeys == {"a", "b", "c"}

\* A positional argument of *dataframes: a DataFrame or a list of DataFrames.
DfArg(df) == [isList |-> FALSE, items |-> <<df>>]

ListArg(dfs) == [isList |-> TRUE, items |-> dfs]

IsInstanceList(arg) == arg.isList

Range(s) == {s[i] : i \in 1..Len(s)}

----------------------------------------------------------------------------
(* Outcomes of a call *)

MsgAtLeastOne == <<"At least one DataFrame must be provided">>

MsgColumnNotFound(c) == <<"Column '", c, "' not found in all DataFrames">>

MsgReduceEmpty == <<"reduce() of empty iterable with no initial value">>

MsgNoAttribute(attr) == <<"'list' object has no attribute '", attr, "'">>

MsgUnionWidth == <<"Union can only be performed on tables with the same number of columns">>

MsgUnresolvedColumn(c) == <<"USING column '", c, "' cannot be resolved">>

Raise(exc, msg, calls) ==
    [kind |-> "error", exc |-> exc, msg |-> msg, value |-> <<>>, calls |-> calls]

Return(v, calls) ==
    [kind |-> "ok", exc |-> "", msg |-> <<>>, value |-> <<v>>, calls |-> calls]

NoOutcome == [kind |-> "none", exc |-> "", msg |-> <<>>, value |-> <<>>, calls |-> <<>>]

----------------------------------------------------------------------------
(* The engine: DataFrame.union and DataFrame.join(on=..., how="outer") *)

\* The rows of s without repetitions, first occurrences kept.
Distinct(s) ==
    LET Keep[i \in 0..Len(s)] ==
            IF i = 0 THEN <<>>
            ELSE IF \E j \in 1..(i - 1) : s[j] = s[i] THEN Keep[i - 1]
            ELSE Append(Keep[i - 1], s[i])
    IN  Keep[Len(s)]

\* A union with SQL UNION's meaning, which removes duplicate rows.
UnionDistinct(df1, df2) ==
    IF Len(df1.columns) # Len(df2.columns)
    THEN Raise("AnalysisException", MsgUnionWidth, <<>>)
    ELSE Return([plan    |-> <<"(">> \o df1.plan \o <<"union">> \o df2.plan \o <<")">>,
                 columns |-> df1.columns,
                 rows    |-> Distinct(df1.rows \o df2.rows)], <<>>)

\* df1.union(df2): positional UNION ALL; the widths must agree.
Union(df1, df2) ==
    IF Len(df1.columns) # Len(df2.columns)
    THEN Raise("AnalysisException", MsgUnionWidth, <<>>)
    ELSE Return([plan    |-> <<"(">> \o df1.plan \o <<"union">> \o df2.plan \o <<")">>,
                 columns |-> df1.columns,
                 rows    |-> df1.rows \o df2.rows], <<>>)

IndexOf(s, x) == CHOOSE i \in 1..Len(s) : s[i] = x /\ \A j \in 1..(i - 1) : s[j] # x

Without(s, i) == SubSeq(s, 1, i - 1) \o SubSeq(s, i + 1, Len(s))

Nulls(n) == [i \in 1..n |-> NULL]

\* The rows of the full outer join of l and r on the columns at li and ri.
OuterJoinRows(l, r, li, ri) ==
    LET Match(a, b) == a[li] # NULL /\ a[li] = b[ri]
        Pair(a, b)  == <<a[li]>> \o Without(a, li) \o Without(b, ri)
        LeftOnly(a) == <<a[li]>> \o Without(a, li) \o Nulls(Len(r.columns) - 1)
        RightOnly(b) == <<b[ri]>> \o Nulls(Len(l.columns) - 1) \o Without(b, ri)
        RowOf[i \in 1..Len(l.rows), j \in 0..Len(r.rows)] ==
            IF j = 0 THEN <<>>
            ELSE RowOf[i, j - 1] \o
                 (IF Match(l.rows[i], r.rows[j])
                  THEN <<Pair(l.rows[i], r.rows[j])>> ELSE <<>>)
        LeftRows[i \in 0..Len(l.rows)] ==
            IF i = 0 THEN <<>>
            ELSE LeftRows[i - 1] \o
                 (IF RowOf[i, Len(r.rows)] = <<>>
                  THEN <<LeftOnly(l.rows[i])>> ELSE RowOf[i, Len(r.rows)])
        RightRows[j \in 0..Len(r.rows)] ==
            IF j = 0 THEN <<>>
            ELSE RightRows[j - 1] \o
                 (IF \E i \in 1..Len(l.rows) : Match(l.rows[i], r.rows[j])
                  THEN <<>> ELSE <<RightOnly(r.rows[j])>>)
    IN  LeftRows[Len(l.rows)] \o RightRows[Len(r.rows)]

\* df1.join(df2, on=c, how="outer"): the join column once, then the other
\* columns of df1, then those of df2.
Join(df1, df2, c) ==
    IF c \notin Range(df1.columns) \/ c \notin Range(df2.columns)
    THEN Raise("AnalysisException", MsgUnresolvedColumn(c), <<>>)
    ELSE LET li == IndexOf(df1.columns, c)
             ri == IndexOf(df2.columns, c)
         IN  Return([plan    |-> <<"(">> \o df1.plan \o <<"outer_join_on", c>>
                                       \o df2.plan \o <<")">>,
                     columns |-> <<c>> \o Without(df1.columns, li)
                                       \o Without(df2.columns, ri),
                     rows    |-> OuterJoinRows(df1, df2, li, ri)], <<>>)

----------------------------------------------------------------------------
(* functools.reduce and the two lambdas folded by it *)

\* The join lambda with its operands exchanged: df2.join(df1, ...).
JoinLambdaSwapped(c, a1, a2) ==
    IF IsInstanceList(a2) THEN Raise("AttributeError", MsgNoAttribute("join"), <<>>)
    ELSE IF IsInstanceList(a1) THEN Raise("AttributeError", MsgNoAttribute("_jdf"), <<>>)
    ELSE Join(a2.items[1], a1.items[1], c)

\* lambda df1, df2: df1.join(df2, on=column_name, how="outer")
JoinLambda(c, a1, a2) ==
    IF IsInstanceList(a1) THEN Raise("AttributeError", MsgNoAttribute("join"), <<>>)
    ELSE IF IsInstanceList(a2) THEN Raise("AttributeError", MsgNoAttribute("_jdf"), <<>>)
    ELSE Join(a1.items[1], a2.items[1], c)

\* lambda df1, df2: df1.union(df2)
UnionLambda(a1, a2) ==
    IF IsInstanceList(a1) THEN Raise("AttributeError", MsgNoAttribute("union"), <<>>)
    ELSE IF IsInstanceList(a2) THEN Raise("AttributeError", MsgNoAttribute("_jdf"), <<>>)
    ELSE Union(a1.items[1], a2.items[1])

Apply(op, c, a1, a2) ==
    IF op = "join" THEN JoinLambda(c, a1, a2) ELSE UnionLambda(a1, a2)

\* The engine operations a call has performed, oldest first: one entry for
\* each pairwise join or union of two DataFrames.
Logged(op, a1, a2) ==
    IF IsInstanceList(a1) \/ IsInstanceList(a2) THEN <<>>
    ELSE << [op |-> op, left |-> a1.items[1].plan, right |-> a2.items[1].plan] >>

\* The loop of reduce: acc = function(acc, x) for each remaining x; an
\* exception of the function ends the loop.
RECURSIVE ReduceLoop(_, _, _, _, _)
ReduceLoop(op, c, acc, rest, calls) ==
    IF rest = <<>> THEN Return(acc.items[1], calls)
    ELSE LET r    == Apply(op, c, acc, Head(rest))
             log  == calls \o Logged(op, acc, Head(rest))
         IN  IF r.kind = "error" THEN Raise(r.exc, r.msg, log)
             ELSE ReduceLoop(op, c, DfArg(r.value[1]), Tail(rest), log)

\* A reduce given an initial value: it returns the initial value for an
\* empty iterable.
ReduceWithInitial(op, c, dataframes) ==
    ReduceLoop(op, c, DfArg([plan |-> <<"empty">>, columns |-> <<>>, rows |-> <<>>]),
               dataframes, <<>>)

\* reduce(function, iterable) without an initial value.
Reduce(op, c, dataframes) ==
    IF dataframes = <<>> THEN Raise("TypeError", MsgReduceEmpty, <<>>)
    ELSE ReduceLoop(op, c, Head(dataframes), Tail(dataframes), <<>>)

----------------------------------------------------------------------------
(* join_dataframes_on_column and union_dataframes *)

\* if isinstance(dataframes[0], list): dataframes = dataframes[0]
Unwrap(dataframes) ==
    IF IsInstanceList(dataframes[1])
    THEN [i \in 1..Len(dataframes[1].items) |-> DfArg(dataframes[1].items[i])]
    ELSE dataframes

\* The column check written with any() in place of all().
RECURSIVE AnyHasColumn(_, _)
AnyHasColumn(c, dataframes) ==
    IF dataframes = <<>> THEN "false"
    ELSE IF IsInstanceList(Head(dataframes)) THEN "raise"
    ELSE IF c \in Range(Head(dataframes).items[1].columns) THEN "true"
    ELSE AnyHasColumn(c, Tail(dataframes))

\* all(column_name in df.columns for df in dataframes), left to right and
\* stopping at the first False: "true", "false", or "raise" when df.columns
\* is read from a list.
RECURSIVE AllHaveColumn(_, _)
AllHaveColumn(c, dataframes) ==
    IF dataframes = <<>> THEN "true"
    ELSE IF IsInstanceList(Head(dataframes)) THEN "raise"
    ELSE IF c \notin Range(Head(dataframes).items[1].columns) THEN "false"
    ELSE AllHaveColumn(c, Tail(dataframes))

join_dataframes_on_column(c, dataframes) ==
    IF dataframes = <<>> THEN Raise("ValueError", MsgAtLeastOne, <<>>)
    ELSE LET dfs   == Unwrap(dataframes)
             check == AllHaveColumn(c, dfs)
         IN  IF check = "raise"
             THEN Raise("AttributeError", MsgNoAttribute("columns"), <<>>)
             ELSE IF check = "false"
             THEN Raise("ValueError", MsgColumnNotFound(c), <<>>)
             ELSE Reduce("join", c, dfs)

MsgSchemaMismatch == <<"DataFrames do not share one schema">>

\* union_dataframes with the schema check of its TODO in place.
union_dataframes_validating(dataframes) ==
    IF dataframes = <<>> THEN Raise("ValueError", MsgAtLeastOne, <<>>)
    ELSE LET dfs == Unwrap(dataframes)
         IN  IF \E i, j \in 1..Len(dfs) :
                    /\ ~IsInstanceList(dfs[i]) /\ ~IsInstanceList(dfs[j])
                    /\ dfs[i].items[1].columns # dfs[j].items[1].columns
             THEN Raise("ValueError", MsgSchemaMismatch, <<>>)
             ELSE Reduce("union", "", dfs)

union_dataframes(dataframes) ==
    IF dataframes = <<>> THEN Raise("ValueError", MsgAtLeastOne, <<>>)
    ELSE Reduce("union", "", Unwrap(dataframes))

----------------------------------------------------------------------------
(* create_map_from_dict *)

\* Python values: a str or an int; None is what a map yields for no entry.
PyStr(s) == [type |-> "str", str |-> s, int |-> 0]

PyInt(i) == [type |-> "int", str |-> "", int |-> i]

None == [type |-> "NoneType", str |-> "", int |-> 0]

\* dict_.items(): the (key, value) pairs in insertion order.
Items(d) == [i \in 1..Len(d) |-> <<PyStr(d[i].key), PyInt(d[i].value)>>]

\* A flattening that yields all keys and then all values, as
\* itertools.chain(dict_.keys(), dict_.values()) would.
ChainKeysThenValues(pairs) ==
    [i \in 1..Len(pairs) |-> pairs[i][1]] \o [i \in 1..Len(pairs) |-> pairs[i][2]]

\* itertools.chain(*pairs): the elements of the first pair, then those of
\* the second, and so on.
RECURSIVE Chain(_)
Chain(pairs) == IF pairs = <<>> THEN <<>> ELSE Head(pairs) \o Chain(Tail(pairs))

\* F.lit(value)
Lit(v) == [lit |-> v]

\* F.create_map(cols): the map expression over its children; the engine
\* reads them as key1, value1, key2, value2, ...
CreateMap(cols) == [map |-> cols]

MsgEmptyDict == <<"The dictionary must not be empty">>

\* create_map_from_dict with a check that rejects the empty dictionary.
create_map_from_dict_nonempty(d) ==
    IF d = <<>> THEN Raise("ValueError", MsgEmptyDict, <<>>)
    ELSE LET flat == Chain(Items(d))
         IN  Return(CreateMap([i \in 1..Len(flat) |-> Lit(flat[i])]), <<>>)

create_map_from_dict(d) ==
    LET flat == Chain(Items(d))
    IN  Return(CreateMap([i \in 1..Len(flat) |-> Lit(flat[i])]), <<>>)

\* The engine's evaluation of a map column: it is well formed when it has an
\* even number of children; its keys; and the value it holds for a key.
MapWellFormed(col) == Len(col.map) % 2 = 0

MapKeys(col) == {col.map[2 * i - 1].lit : i \in 1..(Len(col.map) \div 2)}

GetItem(col, key) ==
    IF \E i \in 1..(Len(col.map) \div 2) : col.map[2 * i - 1].lit = key
    THEN col.map[2 * (CHOOSE i \in 1..(Len(col.map) \div 2) :
                          col.map[2 * i - 1].lit = key)].lit
    ELSE None

----------------------------------------------------------------------------
(* The calls *)

SeqsUpTo(S, n) == UNION {[1..m -> S] : m \in 0..n}

Size(arg) == IF arg.isList THEN 1 + Len(arg.items) ELSE 1

\* The argument values of size at most w.
ArgValues(w) ==
    {DfArg(t) : t \in Tables} \cup {ListArg(l) : l \in SeqsUpTo(Tables, w - 1)}

\* The tuples *dataframes of total size at most w.
RECURSIVE ArgTuples(_)
ArgTuples(w) ==
    {<<>>} \cup
    UNION { {<<a>> \o s : s \in ArgTuples(w - Size(a))} : a \in {v \in ArgValues(w) : Size(v) <= w} }

\* The dictionaries: distinct keys, in any insertion order.
Dicts ==
    {d \in SeqsUpTo([key : DictKeys, value : 0..MaxVal], Cardinality(DictKeys)) :
        \A i, j \in 1..Len(d) : d[i].key = d[j].key => i = j}

Init ==
    /\ pc = "idle"
    /\ fn = ""
    /\ column_name = ""
    /\ args = <<>>
    /\ dict_ = <<>>
    /\ outcome = NoOutcome

CallJoin ==
    /\ pc = "idle"
    /\ \E c \in ColumnNames, a \in ArgTuples(MaxSize) :
          /\ column_name' = c
          /\ args' = a
          /\ outcome' = join_dataframes_on_column(c, a)
    /\ fn' = "join_dataframes_on_column"
    /\ pc' = "done"
    /\ UNCHANGED dict_

CallUnion ==
    /\ pc = "idle"
    /\ \E a \in ArgTuples(MaxSize) :
          /\ args' = a
          /\ outcome' = union_dataframes(a)
    /\ fn' = "union_dataframes"
    /\ pc' = "done"
    /\ UNCHANGED <<column_name, dict_>>

CallCreateMap ==
    /\ pc = "idle"
    /\ \E d \in Dicts :
          /\ dict_' = d
          /\ outcome' = create_map_from_dict(d)
    /\ fn' = "create_map_from_dict"
    /\ pc' = "done"
    /\ UNCHANGED <<column_name, args>>

Next == CallJoin \/ CallUnion \/ CallCreateMap

Spec == Init /\ [][Next]_vars

----------------------------------------------------------------------------
(* Vocabulary of the properties *)

Combinators == {"join_dataframes_on_column", "union_dataframes"}

Called(f) == pc = "done" /\ fn = f

\* The two call forms: DataFrames passed one by one, or one list of them.
IsVariadicForm(a) == \A i \in 1..Len(a) : ~a[i].isList

IsListForm(a) == Len(a) = 1 /\ a[1].isList

IsPlainForm(a) == IsVariadicForm(a) \/ IsListForm(a)

\* The sequence of tables a call in one of the two forms was given.
TablesOf(a) ==
    IF IsListForm(a) THEN a[1].items ELSE [i \in 1..Len(a) |-> a[i].items[1]]

VariadicFormOf(ts) == [i \in 1..Len(ts) |-> DfArg(ts[i])]

\* Every table found in the arguments, in the order supplied.
RECURSIVE Supplied(_)
Supplied(a) == IF a = <<>> THEN <<>> ELSE Head(a).items \o Supplied(Tail(a))

\* The base tables a plan reads, left to right.
RECURSIVE Leaves(_)
Leaves(plan) ==
    IF plan = <<>> THEN <<>>
    ELSE (IF Head(plan) \in TableNames THEN <<Head(plan)>> ELSE <<>>)
         \o Leaves(Tail(plan))

Front(s) == SubSeq(s, 1, Len(s) - 1)

Last(s) == s[Len(s)]

HasColumn(t, c) == c \in Range(t.columns)

RECURSIVE SumRows(_)
SumRows(ts) == IF ts = <<>> THEN 0 ELSE Len(Head(ts).rows) + SumRows(Tail(ts))

Occurrences(rows, r) == Cardinality({i \in 1..Len(rows) : rows[i] = r})

RECURSIVE SumOccurrences(_, _)
SumOccurrences(ts, r) ==
    IF ts = <<>> THEN 0
    ELSE Occurrences(Head(ts).rows, r) + SumOccurrences(Tail(ts), r)

SameWidth(ts) == \A i, j \in 1..Len(ts) : Len(ts[i].columns) = Len(ts[j].columns)

\* (...((t1 join t2) join t3)... join tn), defined from the last table back.
RECURSIVE LeftJoinFold(_, _)
LeftJoinFold(ts, c) ==
    IF Len(ts) = 1 THEN ts[1]
    ELSE Join(LeftJoinFold(Front(ts), c), Last(ts), c).value[1]

\* The engine's outcome of unioning the first k tables pairwise, in order.
RECURSIVE UnionPrefix(_, _)
UnionPrefix(ts, k) ==
    IF k = 1 THEN Return(ts[1], <<>>)
    ELSE LET before == UnionPrefix(ts, k - 1)
         IN  IF before.kind = "error" THEN before
             ELSE Union(before.value[1], ts[k])

----------------------------------------------------------------------------
(* Properties *)

\* C1: join_dataframes_on_column and union_dataframes raise an error and
\* return no table when called with zero tables, both with no table
\* argument at all and with a single empty list.
C1_ZeroTablesRaise ==
    (pc = "done" /\ fn \in Combinators
        /\ (args = <<>> \/ args = <<ListArg(<<>>)>>))
    => (outcome.kind = "error" /\ outcome.value = <<>>)

C1_Witness ==
    /\ Called("join_dataframes_on_column")
    /\ args = <<ListArg(<<>>)>>
    /\ outcome.kind = "error"
    /\ outcome.value = <<>>

\* C2: a join over a non-empty sequence of tables (variadic or one list) of
\* which at least one, at any position, lacks the join column raises the
\* ValueError of the column check, and no pairwise join has been performed.
C2_MissingColumnRaises ==
    (Called("join_dataframes_on_column") /\ IsPlainForm(args)
        /\ TablesOf(args) # <<>>
        /\ \E i \in 1..Len(TablesOf(args)) : ~HasColumn(TablesOf(args)[i], column_name))
    => outcome = Raise("ValueError", MsgColumnNotFound(column_name), <<>>)

C2_Witness ==
    /\ Called("join_dataframes_on_column")
    /\ column_name = "k"
    /\ args = <<DfArg(T1), DfArg(T2), DfArg(T3)>>
    /\ outcome.exc = "ValueError"
    /\ outcome.calls = <<>>

\* C3: the union of a non-empty sequence of schema-compatible tables has as
\* many rows as the inputs together, and holds every row as often as the
\* inputs together hold it: nothing is dropped, duplicates are kept.
C3_UnionRowCount ==
    (Called("union_dataframes") /\ IsPlainForm(args)
        /\ TablesOf(args) # <<>> /\ SameWidth(TablesOf(args)))
    => /\ outcome.kind = "ok"
       /\ Len(outcome.value[1].rows) = SumRows(TablesOf(args))
       /\ \A t \in Tables : \A r \in Range(t.rows) :
             Occurrences(outcome.value[1].rows, r) = SumOccurrences(TablesOf(args), r)

C3_Witness ==
    /\ Called("union_dataframes")
    /\ args = <<DfArg(T1), DfArg(T2), DfArg(T1)>>
    /\ outcome.kind = "ok"
    /\ Len(outcome.value[1].rows) = 6
    /\ Occurrences(outcome.value[1].rows, <<"x", "y">>) = 5

\* C4: the map built from a dictionary holds, for each key of the
\* dictionary, that key's own value, and has no other keys.
C4_MapRoundTrip ==
    Called("create_map_from_dict")
    => /\ outcome.kind = "ok"
       /\ MapWellFormed(outcome.value[1])
       /\ \A i \in 1..Len(dict_) :
             GetItem(outcome.value[1], PyStr(dict_[i].key)) = PyInt(dict_[i].value)
       /\ MapKeys(outcome.value[1]) = {PyStr(dict_[i].key) : i \in 1..Len(dict_)}

C4_Witness ==
    /\ Called("create_map_from_dict")
    /\ dict_ = << [key |-> "b", value |-> 1], [key |-> "a", value |-> 0] >>
    /\ GetItem(outcome.value[1], PyStr("a")) = PyInt(0)
    /\ GetItem(outcome.value[1], PyStr("b")) = PyInt(1)

\* C5: a join over a non-empty sequence of tables that all contain the join
\* column returns the left-to-right fold of the pairwise outer join in the
\* supplied order, each table used exactly once; a single table is returned
\* as it is, with no join performed.
C5_JoinLeftFold ==
    (Called("join_dataframes_on_column") /\ IsPlainForm(args)
        /\ TablesOf(args) # <<>>
        /\ \A i \in 1..Len(TablesOf(args)) : HasColumn(TablesOf(args)[i], column_name))
    => LET ts == TablesOf(args)
       IN  /\ outcome.kind = "ok"
           /\ outcome.value[1] = LeftJoinFold(ts, column_name)
           /\ Leaves(outcome.value[1].plan) = [i \in 1..Len(ts) |-> ts[i].plan[1]]
           /\ Len(outcome.calls) = Len(ts) - 1
           /\ \A i \in 1..Len(outcome.calls) :
                 /\ outcome.calls[i].op = "join"
                 /\ outcome.calls[i].left = LeftJoinFold(SubSeq(ts, 1, i), column_name).plan
                 /\ outcome.calls[i].right = ts[i + 1].plan

C5_Witness ==
    /\ Called("join_dataframes_on_column")
    /\ column_name = "k"
    /\ args = <<ListArg(<<T1, T2, T1>>)>>
    /\ outcome.kind = "ok"
    /\ outcome.value[1].plan =
          <<"(", "(", "T1", "outer_join_on", "k", "T2", ")",
            "outer_join_on", "k", "T1", ")">>

\* C6: called with an empty list of tables, each combinator is rejected by
\* its own validation with the ValueError 'At least one DataFrame must be
\* provided', as it is when no table argument is passed.
C6_EmptyListValueError ==
    (pc = "done" /\ fn \in Combinators /\ args = <<ListArg(<<>>)>>)
    => outcome = Raise("ValueError", MsgAtLeastOne, <<>>)

\* C7: create_map_from_dict called with an empty mapping produces an error
\* and never a column.
C7_EmptyDictFails ==
    (Called("create_map_from_dict") /\ dict_ = <<>>)
    => outcome.kind = "error"

\* C7 as amended: create_map_from_dict called with an empty mapping raises
\* nothing of its own and returns the map column built from no literals, a
\* map without keys.
C7_EmptyDictEmptyMap ==
    (Called("create_map_from_dict") /\ dict_ = <<>>)
    => /\ outcome.kind = "ok"
       /\ outcome.value[1] = CreateMap(<<>>)
       /\ MapWellFormed(outcome.value[1])
       /\ MapKeys(outcome.value[1]) = {}

C7_Witness ==
    /\ Called("create_map_from_dict")
    /\ dict_ = <<>>
    /\ outcome.kind = "ok"
    /\ outcome.value = <<CreateMap(<<>>)>>

\* C8: union_dataframes over a non-empty sequence of tables, whatever their
\* schemas, raises no error of its own: it hands the tables to the engine's
\* pairwise union in order, and an error outcome is the engine's error for
\* the union that failed, unmodified.
C8_UnionNoValidation ==
    (Called("union_dataframes") /\ IsPlainForm(args) /\ TablesOf(args) # <<>>)
    => LET ts == TablesOf(args)
           n  == Len(outcome.calls)
       IN  /\ n <= Len(ts) - 1
           /\ \A i \in 1..n :
                 /\ outcome.calls[i].op = "union"
                 /\ UnionPrefix(ts, i).kind = "ok"
                 /\ outcome.calls[i].left = UnionPrefix(ts, i).value[1].plan
                 /\ outcome.calls[i].right = ts[i + 1].plan
           /\ outcome.kind = "ok" =>
                 /\ n = Len(ts) - 1
                 /\ outcome.value = UnionPrefix(ts, Len(ts)).value
           /\ outcome.kind = "error" =>
                 /\ n >= 1
                 /\ UnionPrefix(ts, n + 1).kind = "error"
                 /\ outcome.exc = UnionPrefix(ts, n + 1).exc
                 /\ outcome.msg = UnionPrefix(ts, n + 1).msg
           /\ outcome.kind \in {"ok", "error"}

C8_Witness ==
    /\ Called("union_dataframes")
    /\ args = <<DfArg(T1), DfArg(T2), DfArg(T3)>>
    /\ outcome.kind = "error"
    /\ outcome.exc = "AnalysisException"
    /\ Len(outcome.calls) = 2

\* C9: the list call form and the variadic call form have the same outcome
\* for every sequence of tables, the empty one included, for both
\* combinators.
C9_FormsEquivalent ==
    (pc = "done" /\ fn \in Combinators /\ IsListForm(args))
    => outcome = (IF fn = "union_dataframes"
                  THEN union_dataframes(VariadicFormOf(args[1].items))
                  ELSE join_dataframes_on_column(column_name,
                                                 VariadicFormOf(args[1].items)))

\* C10: whenever a combinator returns a table, every table supplied in the
\* arguments, inside a leading list or after it, is folded into the result.
C10_EveryTableUsed ==
    (pc = "done" /\ fn \in Combinators /\ outcome.kind = "ok")
    => Leaves(outcome.value[1].plan)
          = [i \in 1..Len(Supplied(args)) |-> Supplied(args)[i].plan[1]]

====
